---- MODULE Spec2Model ----
(***************************************************************************)
(* Model of the trading-card renderer of src/src/index.ts                  *)
(* (generateTradingCard).  One call is a sequence of synchronous segments  *)
(* separated by the awaits on loadImage; the drawing surface is a heap     *)
(* object owned by the call that created it.                               *)
(*                                                                         *)
(* Numbers: token amounts and prices are whole numbers; roi is kept as the *)
(* exact fraction num/den.  Pixel coordinates are kept in units of         *)
(* 1/10000 px (operator P), so that 0.75 * fontSize and 0.35 * textHeight  *)
(* are exact.                                                              *)
(*                                                                         *)
(* The module also models the two Telegram front ends that call the        *)
(* renderer: the one-shot /gen_card command of src/src/index.ts and the    *)
(* prompt-by-prompt session flow of src/unnamed/part_000.  There a handler *)
(* runs synchronously up to its first await and is then resumed once per   *)
(* settled promise; the renderer call is one of these promises.            *)
(* The start of the process of src/src/index.ts (setupWebhook of           *)
(* src/src/webhookConfig.ts, then startBot) is followed in startup.        *)
(***************************************************************************)
EXTENDS Integers, Sequences, FiniteSets, TLC

VARIABLES
  files,     \* the image directory: asset file name -> status
  surfaces,  \* heap of canvases, indexed by creation order
  calls,     \* call id -> locals of one generateTradingCard invocation
  program,   \* which bot is running: "oneShot", "session", or "none"
  sessions,  \* the sessions Map: user id -> session object id, 0 if absent
  heap,      \* session objects by id
  handlers,  \* suspended update handlers: slot -> locals and position
  sent,      \* what the latest step handed to ctx.reply / replyWithPhoto
  updates,   \* number of updates (commands, texts) received so far
  startup    \* the process of src/src/index.ts from its start: environment,
             \* position of startBot, and what runs (webhook, server, polling)

renderVars == <<files, surfaces, calls>>

botVars == <<program, sessions, heap, handlers, sent, updates, startup>>

vars ==
  <<files, surfaces, calls, program, sessions, heap, handlers, sent, updates,
    startup>>

----------------------------------------------------------------------------
(* Bounds of the model and the input sets drawn from them.                 *)

\* the bot receives at most MaxUpdates updates
MaxUpdates == 6

\* finalAmount ranges over 0, 500, ..., 500 * MaxFinalUnits
MaxFinalUnits == 5

\* initialInvestment ranges over 500, ..., 500 * MaxInitialUnits
MaxInitialUnits == 2

Calls == {1}
Chains == {"SOL", "ETH"}
Tickers == {"BONK"}
Prices == {150, 3500}
InitialInvestments == {500 * k : k \in 1..MaxInitialUnits}
FinalAmounts == {500 * k : k \in 0..MaxFinalUnits}

AssetNames == {"bg.png", "sol.png", "eth.png", "stroke.png"}
\* ok: exists and every load succeeds; absent: no such file; flaky: exists
\* and a load may throw (undecodable file, I/O error), each load on its own
FileStatus == {"ok", "absent", "flaky"}

\* natural size of each bitmap, as [w, h]
ImageDims(name) ==
  CASE name = "bg.png" -> [w |-> 1600, h |-> 1071]
    [] name = "sol.png" -> [w |-> 64, h |-> 64]
    [] name = "eth.png" -> [w |-> 40, h |-> 64]
    [] name = "stroke.png" -> [w |-> 22, h |-> 35]

----------------------------------------------------------------------------
(* Arithmetic and formatting helpers.                                      *)

\* n pixels in model units
P(n) == n * 10000

Abs(n) == IF n < 0 THEN -n ELSE n

RECURSIVE Zeros(_)
Zeros(d) == IF d = 0 THEN "" ELSE "0" \o Zeros(d - 1)

\* Number.prototype.toFixed(d) of a whole number
ToFixed(v, d) == ToString(v) \o "." \o Zeros(d)

\* Number.prototype.toFixed(2) of the non-negative fraction r.num / r.den
\* (rounded to the nearest hundredth, a tie taking the larger value)
RatioToFixed2(r) ==
  LET hundredths == (2 * 100 * r.num + r.den) \div (2 * r.den)
      frac == hundredths % 100
  IN ToString(hundredths \div 100) \o "." \o
       (IF frac < 10 THEN "0" ELSE "") \o ToString(frac)

RECURSIVE Grouped(_)
Grouped(v) ==
  IF v < 1000 THEN ToString(v)
  ELSE LET low == v % 1000
       IN Grouped(v \div 1000) \o "," \o
            (IF low < 10 THEN "00" ELSE IF low < 100 THEN "0" ELSE "") \o
            ToString(low)

\* toLocaleString('en-US', {minimumFractionDigits: 2, maximumFractionDigits: 2})
\* of a non-negative whole number
ToLocaleUsd(v) == Grouped(v) \o ".00"

\* pixel size named by a CSS font string used by the renderer
FontPx(font) ==
  CASE font = "bold 70px Impact" -> 70
    [] font = "bold 132px AntonSC" -> 132
    [] font = "36px GeistMono" -> 36
    [] font = "bold 152px Impact" -> 152
    [] font = "bold 74px Impact" -> 74
    [] font = "28px GeistMono" -> 28
    [] font = "bold 28px GeistMono" -> 28
    [] font = "bold 77px Impact" -> 77
    [] font = "bold 26px GeistMono" -> 26
    [] OTHER -> 10

\* ctx.measureText(text).width under the context's current font: the text
\* metrics service, deterministic in (text, font); every glyph advances by
\* half the font size
MeasureText(s, text) == P(Len(text) * (FontPx(s.font) \div 2))

----------------------------------------------------------------------------
(* The 2D context: state setters and draw calls, as commands applied to a  *)
(* surface record.                                                         *)

Op(kind, arg, x, y, w, h, style, s) ==
  [op |-> kind, arg |-> arg, x |-> x, y |-> y, w |-> w, h |-> h,
   style |-> style, font |-> s.font]

Apply(s, cmd) ==
  LET k == cmd[1] IN
  CASE k = "fillStyle" -> [s EXCEPT !.fillStyle = cmd[2]]
    [] k = "strokeStyle" -> [s EXCEPT !.strokeStyle = cmd[2]]
    [] k = "lineWidth" -> [s EXCEPT !.lineWidth = cmd[2]]
    [] k = "font" -> [s EXCEPT !.font = cmd[2]]
    [] k = "textAlign" -> [s EXCEPT !.textAlign = cmd[2]]
    [] k = "textBaseline" -> [s EXCEPT !.textBaseline = cmd[2]]
    [] k = "fillText" ->
         [s EXCEPT !.ops = Append(@, Op("fillText", cmd[2], cmd[3], cmd[4],
                                        0, 0, s.fillStyle, s))]
    [] k = "fillRect" ->
         [s EXCEPT !.ops = Append(@, Op("fillRect", "", cmd[2], cmd[3],
                                        cmd[4], cmd[5], s.fillStyle, s))]
    [] k = "strokeRect" ->
         [s EXCEPT !.ops = Append(@, Op("strokeRect", "", cmd[2], cmd[3],
                                        cmd[4], cmd[5], s.strokeStyle, s))]
    [] k = "drawImage" ->
         [s EXCEPT !.ops = Append(@, Op("drawImage", cmd[2], cmd[3], cmd[4],
                                        cmd[5], cmd[6], "", s))]

\* the statements cmds run in order on surface s (each intermediate surface
\* is bound as a value: v ranges over the one-element set {s})
RECURSIVE Exec(_, _)
Exec(s, cmds) ==
  IF Len(cmds) = 0 THEN s
  ELSE CHOOSE r \in {Exec(Apply(v, Head(cmds)), Tail(cmds)) : v \in {s}} : TRUE

----------------------------------------------------------------------------
(* The image directory.                                                    *)

\* path.join(process.cwd(), 'src', 'images', `${chain.toLowerCase()}.png`)
LogoPath(chain) == IF chain = "ETH" THEN "eth.png" ELSE "sol.png"

existsSync(name) == files[name] # "absent"

\* the ways an awaited loadImage(name) can settle
LoadOutcomes(name) ==
  CASE files[name] = "ok" -> {"loaded"}
    [] files[name] = "flaky" -> {"loaded", "failed"}
    [] OTHER -> {"failed"}

----------------------------------------------------------------------------
(* generateTradingCard: derived values.                                    *)

canvasWidth == 1600
canvasHeight == 1071

\* Metrics with roi taken from the profit (the unused profitPercentage)
MetricsRoiOfProfit(c) ==
  LET profit == c.finalAmount - c.initialInvestment
      initialUsd == c.initialInvestment * c.tokenPrice
      finalUsd == c.finalAmount * c.tokenPrice
  IN [c EXCEPT !.profit = profit,
               !.isProfitable = (profit >= 0),
               !.roi = [num |-> profit, den |-> c.initialInvestment],
               !.initialUsd = initialUsd,
               !.finalUsd = finalUsd,
               !.profitUsd = finalUsd - initialUsd]

Metrics(c) ==
  LET profit == c.finalAmount - c.initialInvestment
      initialUsd == c.initialInvestment * c.tokenPrice
      finalUsd == c.finalAmount * c.tokenPrice
  IN [c EXCEPT !.profit = profit,
               !.isProfitable = (profit >= 0),
               !.roi = [num |-> c.finalAmount, den |-> c.initialInvestment],
               !.initialUsd = initialUsd,
               !.finalUsd = finalUsd,
               !.profitUsd = finalUsd - initialUsd]

\* NewSurface with the two dimensions exchanged
NewSurfaceSwapped(w, h) ==
  [width |-> h, height |-> w,
   fillStyle |-> "#000000", strokeStyle |-> "#000000", lineWidth |-> 1,
   font |-> "10px sans-serif", textAlign |-> "start",
   textBaseline |-> "alphabetic", ops |-> <<>>]

\* NewSurface taking a pooled canvas without clearing it: the state and the
\* content of the canvas created last are kept
NewSurfacePooled(w, h) ==
  IF surfaces = <<>>
  THEN [width |-> w, height |-> h,
        fillStyle |-> "#000000", strokeStyle |-> "#000000", lineWidth |-> 1,
        font |-> "10px sans-serif", textAlign |-> "start",
        textBaseline |-> "alphabetic", ops |-> <<>>]
  ELSE [surfaces[Len(surfaces)] EXCEPT !.width = w, !.height = h]

\* createCanvas(w, h) and getContext('2d'): a blank surface with the
\* context's default state
NewSurface(w, h) ==
  [width |-> w, height |-> h,
   fillStyle |-> "#000000", strokeStyle |-> "#000000", lineWidth |-> 1,
   font |-> "10px sans-serif", textAlign |-> "start",
   textBaseline |-> "alphabetic", ops |-> <<>>]

\* the placeholder glyph of the logo fallbacks (the character U+2261, written
\* by its code point: module text is ASCII)
Placeholder == "U+2261"

ProfitColor(c) == IF c.isProfitable THEN "#00FF00" ELSE "#FF0000"

percentageText(c) == ToFixed(c.profit, 3)
investmentText(c) == ToFixed(c.initialInvestment, 1)
finalAmountText(c) == ToFixed(c.finalAmount, 1)
soldText(c) == "SOLD " \o RatioToFixed2(c.roi)

\* LogoDraw without the ETH branch: every logo a square of the text height
LogoDrawSquare(c, x, y, textHeight) ==
  <<"drawImage", LogoPath(c.chain), x, y, textHeight, textHeight>>

\* the chain-dependent drawImage of the token logo at (x, y)
LogoDraw(c, x, y, textHeight) ==
  IF c.chain = "ETH"
  THEN LET ethLogoWidth == P(39)
           d == ImageDims(LogoPath(c.chain))
           ethLogoHeight == (ethLogoWidth * d.h) \div d.w
       IN <<"drawImage", LogoPath(c.chain), x, y, ethLogoWidth, ethLogoHeight>>
  ELSE <<"drawImage", LogoPath(c.chain), x, y, textHeight, textHeight>>

----------------------------------------------------------------------------
(* generateTradingCard: the blocks of draw calls, in source order.         *)

BgDrawCmds ==
  << <<"drawImage", "bg.png", 0, 0, P(canvasWidth), P(canvasHeight)>> >>

BgElseCmds ==
  << <<"fillStyle", "#000000">>,
     <<"fillRect", 0, 0, P(canvasWidth), P(canvasHeight)>> >>

\* BgCatchCmds that only logs
BgCatchCmdsNoFill == <<>>

BgCatchCmds ==
  << <<"fillStyle", "#000000">>,
     <<"fillRect", 0, 0, P(canvasWidth), P(canvasHeight)>> >>

LabelBoxCmds ==
  << <<"strokeStyle", "#FFFFFF">>,
     <<"lineWidth", 5>>,
     <<"strokeRect", P(1192), P(848), P(321), P(125)>>,
     <<"fillStyle", "#000000">>,
     <<"fillRect", P(1194), P(850), P(317), P(121)>>,
     <<"fillStyle", "#FFFFFF">>,
     <<"font", "bold 70px Impact">>,
     <<"textAlign", "center">>,
     <<"fillText", "MUGSHOT", P(1352), P(937)>> >>

TickerCmds(c) ==
  << <<"fillStyle", "#FFFFFF">>,
     <<"font", "bold 132px AntonSC">>,
     <<"textAlign", "left">>,
     <<"textBaseline", "top">>,
     <<"fillText", "$" \o c.ticker, P(112), P(63)>> >>

HeaderCmds ==
  << <<"fillStyle", "#FFFFFF">>,
     <<"font", "36px GeistMono">>,
     <<"textAlign", "left">>,
     <<"textBaseline", "top">>,
     <<"fillText", "PROFIT/LOSS", P(125), P(299)>> >>

ProfitAmountCmds(c) ==
  << <<"fillStyle", ProfitColor(c)>>,
     <<"font", "bold 152px Impact">>,
     <<"textAlign", "left">>,
     <<"textBaseline", "top">>,
     <<"fillText",
       (IF c.isProfitable THEN "+$" ELSE "-$") \o ToLocaleUsd(Abs(c.profitUsd)),
       P(61), P(346)>> >>

ProfitQuantityCmds(c) ==
  << <<"fillStyle", "#FFFFFF">>,
     <<"font", "bold 74px Impact">>,
     <<"textAlign", "left">>,
     <<"textBaseline", "middle">>,
     <<"fillText", percentageText(c), P(119), P(577)>> >>

PanelCmds ==
  << <<"strokeStyle", "#818181">>,
     <<"lineWidth", 5>>,
     <<"strokeRect", P(70), P(736), P(671), P(261)>>,
     <<"fillStyle", "#202020">>,
     <<"fillRect", P(73), P(738), P(665), P(257)>>,
     <<"strokeStyle", "#919191">>,
     <<"lineWidth", 5>>,
     <<"strokeRect", P(70), P(998), P(671), P(12)>>,
     <<"fillStyle", "#919191">>,
     <<"fillRect", P(70), P(998), P(671), P(12)>> >>

LabelsCmds(c) ==
  << <<"fillStyle", "#FFFFFF">>,
     <<"font", "28px GeistMono">>,
     <<"textAlign", "left">>,
     <<"textBaseline", "top">>,
     <<"fillText", "INVESTED", P(130), P(780)>>,
     <<"fillText", soldText(c), P(440), P(780)>> >>

RoiSuffixCmds(soldTextWidth) ==
  << <<"font", "bold 28px GeistMono">>,
     <<"fillText", "X ROI", P(440) + soldTextWidth, P(780)>>,
     <<"font", "bold 77px Impact">>,
     <<"textAlign", "left">>,
     <<"textBaseline", "top">> >>

\* lines 312-335: the invested amount and the first logo
InvestedCmds(c, tokenLogoX, tokenLogoY, textHeight) ==
  << <<"fillText", investmentText(c), P(130), P(835)>>,
     LogoDraw(c, tokenLogoX, tokenLogoY, textHeight) >>

\* lines 343-370: stroke.png loaded
SepLoadedCmds(c, s) ==
  LET availableSpace == P(440) - (c.tokenLogoX + c.textHeight)
      strokeX == c.tokenLogoX + c.textHeight + (availableSpace \div 2)
                   - (P(22) \div 2)
      strokeY == P(850) + (c.textHeight \div 2) - (P(35) \div 2)
      finalAmountWidth == MeasureText(s, finalAmountText(c))
      finalTokenX == P(440) + finalAmountWidth + P(19)
  IN << <<"drawImage", "stroke.png", strokeX, strokeY, P(22), P(35)>>,
        <<"fillStyle", ProfitColor(c)>>,
        <<"fillText", finalAmountText(c), P(440), P(835)>>,
        LogoDraw(c, finalTokenX, c.tokenLogoY, c.textHeight) >>

\* SepElseCmds that stops after the glyph and the final amount
SepElseCmdsNoLogo(c, s) ==
  << <<"fillText", ">", P(352), P(835)>>,
     <<"fillStyle", ProfitColor(c)>>,
     <<"fillText", finalAmountText(c), P(440), P(835)>> >>

\* lines 371-397: stroke.png does not exist
SepElseCmds(c, s) ==
  LET finalAmountWidth == MeasureText(s, finalAmountText(c))
      finalTokenX == P(440) + finalAmountWidth + P(19)
  IN << <<"fillText", ">", P(352), P(835)>>,
        <<"fillStyle", ProfitColor(c)>>,
        <<"fillText", finalAmountText(c), P(440), P(835)>>,
        LogoDraw(c, finalTokenX, c.tokenLogoY, c.textHeight) >>

\* SepCatchCmds that draws the invested amount of the failed path again
SepCatchCmdsRepeat(c, s) ==
  LET finalAmountWidth == MeasureText(s, finalAmountText(c))
      finalTokenX == P(448) + finalAmountWidth + P(19)
  IN << <<"fillText", investmentText(c), P(130), P(835)>>,
        <<"fillText", ">", P(352), P(835)>>,
        <<"fillStyle", ProfitColor(c)>>,
        <<"fillText", finalAmountText(c), P(440), P(835)>>,
        LogoDraw(c, finalTokenX, c.tokenLogoY, c.textHeight) >>

\* lines 398-424: loading stroke.png threw
SepCatchCmds(c, s) ==
  LET finalAmountWidth == MeasureText(s, finalAmountText(c))
      finalTokenX == P(448) + finalAmountWidth + P(19)
  IN << <<"fillText", ">", P(352), P(835)>>,
        <<"fillStyle", ProfitColor(c)>>,
        <<"fillText", finalAmountText(c), P(440), P(835)>>,
        LogoDraw(c, finalTokenX, c.tokenLogoY, c.textHeight) >>

\* LogoElseCmds drawing the separator glyph before the placeholder
LogoElseCmdsSepFirst(c) ==
  << <<"fillText", ">", P(352), P(835)>>,
     <<"fillText", Placeholder, P(272), P(835)>>,
     <<"fillStyle", ProfitColor(c)>>,
     <<"fillText", finalAmountText(c), P(440), P(835)>>,
     <<"fillText", Placeholder, P(544), P(835)>> >>

\* LogoElseCmds without the placeholder of the second logo
LogoElseCmdsOneGlyph(c) ==
  << <<"fillText", Placeholder, P(272), P(835)>>,
     <<"fillText", ">", P(352), P(835)>>,
     <<"fillStyle", ProfitColor(c)>>,
     <<"fillText", finalAmountText(c), P(440), P(835)>> >>

\* lines 425-439: the logo file does not exist
LogoElseCmds(c) ==
  << <<"fillText", Placeholder, P(272), P(835)>>,
     <<"fillText", ">", P(352), P(835)>>,
     <<"fillStyle", ProfitColor(c)>>,
     <<"fillText", finalAmountText(c), P(440), P(835)>>,
     <<"fillText", Placeholder, P(544), P(835)>> >>

\* PanelCatchCmds that leaves the fill colour as it was
PanelCatchCmdsNoColor(c) ==
  << <<"fillText", Placeholder, P(272), P(835)>>,
     <<"fillText", ">", P(352), P(835)>>,
     <<"fillText", finalAmountText(c), P(440), P(835)>>,
     <<"fillText", Placeholder, P(544), P(835)>> >>

\* lines 440-454: the outer catch of the investment panel
PanelCatchCmds(c) ==
  << <<"fillText", Placeholder, P(272), P(835)>>,
     <<"fillText", ">", P(352), P(835)>>,
     <<"fillStyle", ProfitColor(c)>>,
     <<"fillText", finalAmountText(c), P(440), P(835)>>,
     <<"fillText", Placeholder, P(544), P(835)>> >>

UsdRowCmds(c) ==
  << <<"font", "bold 26px GeistMono">>,
     <<"textAlign", "left">>,
     <<"textBaseline", "top">>,
     <<"fillStyle", "#818181">>,
     <<"fillText", "$" \o ToLocaleUsd(c.initialUsd), P(130), P(927)>>,
     <<"fillStyle", "#818181">>,
     <<"textAlign", "left">>,
     <<"textBaseline", "top">>,
     <<"fillText", "$" \o ToLocaleUsd(c.finalUsd), P(440), P(927)>> >>

----------------------------------------------------------------------------
(* generateTradingCard: control.  A call is at one of the positions below; *)
(* the positions ending in Load are the awaits on loadImage.               *)

LoadSites == {"bgLoad", "logo6Load", "logo9Load", "sepLoad"}

\* the file a pending loadImage of call record c is reading
AssetAt(c) ==
  CASE c.pc = "bgLoad" -> "bg.png"
    [] c.pc = "logo6Load" -> LogoPath(c.chain)
    [] c.pc = "logo9Load" -> LogoPath(c.chain)
    [] c.pc = "sepLoad" -> "stroke.png"

\* CatchOf without the try around the profit-quantity logo
CatchOfUncaught(site) ==
  CASE site = "bgLoad" -> "bgCatch"
    [] site = "logo9Load" -> "panelCatch"
    [] site = "sepLoad" -> "sepCatch"
    [] OTHER -> "raised"

\* the catch clause that receives an exception thrown at a load site: the
\* innermost enclosing try
CatchOf(site) ==
  CASE site = "bgLoad" -> "bgCatch"
    [] site = "logo6Load" -> "logo6Catch"
    [] site = "logo9Load" -> "panelCatch"
    [] site = "sepLoad" -> "sepCatch"
    [] OTHER -> "raised"

\* the try block (named by its existsSync position) a position belongs to
SiteOf(pc) ==
  CASE pc = "bgLoad" -> "bg"
    [] pc = "logo6Load" -> "logo6"
    [] pc = "logo9Load" -> "logo9"
    [] pc = "sepLoad" -> "sep"
    [] OTHER -> pc

\* the arguments of a call, before its first statement
NewCall(ticker, initialInvestment, finalAmount, tokenPrice, chain) ==
  [pc |-> "start", ticker |-> ticker, initialInvestment |-> initialInvestment,
   finalAmount |-> finalAmount, tokenPrice |-> tokenPrice, chain |-> chain,
   canvas |-> 0,
   profit |-> 0, isProfitable |-> FALSE, roi |-> [num |-> 0, den |-> 1],
   initialUsd |-> 0, finalUsd |-> 0, profitUsd |-> 0,
   textHeight |-> 0, tokenLogoX |-> 0, tokenLogoY |-> 0,
   trace |-> <<>>, result |-> [width |-> 0, height |-> 0, surface |-> 0]]

\* record a file-system event of call record c, with the try block it occurs
\* in and the number of draw calls its surface has received so far
Ev(c, ev, asset, res) ==
  [c EXCEPT !.trace = Append(@, [ev |-> ev, asset |-> asset, res |-> res,
                                 site |-> SiteOf(c.pc),
                                 n |-> Len(surfaces[c.canvas].ops)])]

Goto(c, pc) == [c EXCEPT !.pc = pc]

\* call i becomes c2 and its surface becomes s2
Step(i, c2, s2) ==
  /\ calls' = [calls EXCEPT ![i] = c2]
  /\ surfaces' = [surfaces EXCEPT ![calls[i].canvas] = s2]
  /\ UNCHANGED <<files, botVars>>

\* call i becomes c2, nothing is drawn
Move(i, c2) ==
  /\ calls' = [calls EXCEPT ![i] = c2]
  /\ UNCHANGED <<surfaces, files, botVars>>

\* Check without the existence test: the load is attempted on any path
CheckNoExists(i, asset, loadPc, elseCmds, elsePc) ==
  Move(i, Goto(Ev(calls[i], "loadImage", asset, TRUE), loadPc))

\* if (fs.existsSync(p)) { await loadImage(p) ... } else { elseCmds }
Check(i, asset, loadPc, elseCmds, elsePc) ==
  LET c == calls[i]
      s == surfaces[c.canvas]
  IN IF existsSync(asset)
     THEN Move(i, Goto(Ev(Ev(c, "existsSync", asset, TRUE),
                          "loadImage", asset, TRUE), loadPc))
     ELSE Step(i, Goto(Ev(c, "existsSync", asset, FALSE), elsePc),
               Exec(s, elseCmds))

\* a block of draw calls, then on to the next position
Block(i, cmds, nextPc) ==
  Step(i, Goto(calls[i], nextPc), Exec(surfaces[calls[i].canvas], cmds))

----------------------------------------------------------------------------
(* Values and texts of the front ends.                                     *)
(*                                                                         *)
(* A JavaScript value that may be a number is a record: a finite number    *)
(* (whole, in the inputs of the model), NaN, +Infinity or -Infinity (val   *)
(* is the sign), or undefined.  A text is a sequence of UTF-16 code units, *)
(* each written as a string; the code unit of the sharp s is written       *)
(* "U+00DF".  An unset text field is the empty text.                       *)

Undefined == [kind |-> "undefined", val |-> 0]

NaN == [kind |-> "NaN", val |-> 0]

Num(n) == [kind |-> "number", val |-> n]

Infinity(sign) == [kind |-> "Infinity", val |-> sign]

\* isNaN(x): x converts to NaN
isNaN(x) == x.kind \in {"NaN", "undefined"}

\* x <= n and x < n of JavaScript: false whenever x is NaN
Leq(x, n) ==
  \/ x.kind = "number" /\ x.val <= n
  \/ x.kind = "Infinity" /\ x.val < 0

Lt(x, n) ==
  \/ x.kind = "number" /\ x.val < n
  \/ x.kind = "Infinity" /\ x.val < 0

WhiteSpace == {" ", "\t", "\n"}

RECURSIVE trimStart(_)
trimStart(t) ==
  IF t # <<>> /\ Head(t) \in WhiteSpace THEN trimStart(Tail(t)) ELSE t

RECURSIVE trimEnd(_)
trimEnd(t) ==
  IF t # <<>> /\ t[Len(t)] \in WhiteSpace
  THEN trimEnd(SubSeq(t, 1, Len(t) - 1))
  ELSE t

\* String.prototype.trim
trim(t) == trimEnd(trimStart(t))

LowerLetters ==
  <<"a", "b", "c", "d", "e", "f", "g", "h", "i", "j", "k", "l", "m",
    "n", "o", "p", "q", "r", "s", "t", "u", "v", "w", "x", "y", "z">>

UpperLetters ==
  <<"A", "B", "C", "D", "E", "F", "G", "H", "I", "J", "K", "L", "M",
    "N", "O", "P", "Q", "R", "S", "T", "U", "V", "W", "X", "Y", "Z">>

\* the upper-case mapping of one code unit: the sharp s has no single
\* capital and maps to SS (Unicode SpecialCasing)
UpperOf(ch) ==
  IF ch = "U+00DF" THEN <<"S", "S">>
  ELSE IF \E k \in DOMAIN LowerLetters : LowerLetters[k] = ch
       THEN <<UpperLetters[CHOOSE k \in DOMAIN LowerLetters :
                             LowerLetters[k] = ch]>>
       ELSE <<ch>>

\* String.prototype.toUpperCase
RECURSIVE toUpperCase(_)
toUpperCase(t) ==
  IF t = <<>> THEN <<>> ELSE UpperOf(Head(t)) \o toUpperCase(Tail(t))

\* String.prototype.split with a one-unit separator
RECURSIVE split(_, _)
split(t, sep) ==
  IF \A k \in DOMAIN t : t[k] # sep THEN <<t>>
  ELSE LET k == CHOOSE k \in DOMAIN t :
                  t[k] = sep /\ \A j \in 1..(k - 1) : t[j] # sep
       IN <<SubSeq(t, 1, k - 1)>> \o split(SubSeq(t, k + 1, Len(t)), sep)

\* the filter of the command handler: part => part.trim() !== ''
NotBlank(part) == trim(part) # <<>>

DigitUnits == <<"0", "1", "2", "3", "4", "5", "6", "7", "8", "9">>

IsDigit(ch) == \E k \in DOMAIN DigitUnits : DigitUnits[k] = ch

DigitValue(ch) == (CHOOSE k \in DOMAIN DigitUnits : DigitUnits[k] = ch) - 1

\* the value of the longest prefix of decimal digits of t, after acc
RECURSIVE DecimalPrefix(_, _)
DecimalPrefix(t, acc) ==
  IF t # <<>> /\ IsDigit(Head(t))
  THEN DecimalPrefix(Tail(t), 10 * acc + DigitValue(Head(t)))
  ELSE acc

InfinityText == <<"I", "n", "f", "i", "n", "i", "t", "y">>

StartsWith(t, prefix) ==
  Len(t) >= Len(prefix) /\ SubSeq(t, 1, Len(prefix)) = prefix

\* parseFloat: leading white space is skipped, then the longest prefix that
\* is a decimal literal is converted: an optional sign followed by Infinity
\* or by digits; NaN if there is none.  The texts of the model carry no
\* decimal point and no exponent.
parseFloat(t) ==
  LET s == trimStart(t)
      signed == s # <<>> /\ Head(s) \in {"+", "-"}
      sign == IF s # <<>> /\ Head(s) = "-" THEN 0 - 1 ELSE 1
      r == IF signed THEN Tail(s) ELSE s
  IN IF StartsWith(r, InfinityText) THEN Infinity(sign)
     ELSE IF r = <<>> \/ ~IsDigit(Head(r)) THEN NaN
     ELSE Num(sign * DecimalPrefix(r, 0))

SOL == <<"S", "O", "L">>

ETH == <<"E", "T", "H">>

\* what api.coingecko.com can answer to the price request: the request
\* fails, the body lacks the coin, the coin lacks the usd field, or a quote
Quotes == {172}

Responses ==
  {[kind |-> k, usd |-> 0] : k \in {"error", "noCoin", "noUsd"}}
    \cup {[kind |-> "quote", usd |-> q] : q \in Quotes}

\* getSolanaPrice once its request has settled: a failed request and the
\* TypeError of reading .usd of a missing coin are caught
getSolanaPrice(response) ==
  CASE response.kind = "error" -> Num(150)
    [] response.kind = "noCoin" -> Num(150)
    [] response.kind = "noUsd" -> Undefined
    [] response.kind = "quote" -> Num(response.usd)

getEthereumPrice(response) ==
  CASE response.kind = "error" -> Num(3500)
    [] response.kind = "noCoin" -> Num(3500)
    [] response.kind = "noUsd" -> Undefined
    [] response.kind = "quote" -> Num(response.usd)

\* the default parameter tokenPrice = 150 takes the place of undefined
DefaultTokenPrice(tokenPrice) ==
  IF tokenPrice.kind = "undefined" THEN Num(150) ELSE tokenPrice

Users == {1, 2}

HandlerSlots == {1, 2}

\* at most one live session object per user and per suspended handler
SessionIds == 1..(Cardinality(Users) + Cardinality(HandlerSlots))

\* a session object; an id that no one holds carries FreeSession
FreshSession ==
  [step |-> "ticker", ticker |-> <<>>, initialInvestment |-> Undefined,
   finalAmount |-> Undefined, solPrice |-> Undefined, ethPrice |-> Undefined,
   chain |-> <<>>]

FreeSession == [FreshSession EXCEPT !.step = "free"]

\* the arguments of a generateTradingCard call, and the tokenPrice its body
\* sees
NoCall ==
  [made |-> FALSE, ticker |-> <<>>, initialInvestment |-> Undefined,
   finalAmount |-> Undefined, price |-> Undefined, chain |-> <<>>,
   tokenPrice |-> Undefined, response |-> [kind |-> "none", usd |-> 0]]

IdleHandler ==
  [pc |-> "idle", session |-> 0, ticker |-> <<>>,
   initialInvestment |-> Undefined, finalAmount |-> Undefined,
   chain |-> <<>>, price |-> Undefined, call |-> NoCall]

\* a variable of the environment: unset, or set to a text
EnvUnset == [set |-> FALSE, text |-> <<>>]

EnvText(t) == [set |-> TRUE, text |-> t]

\* the truth value of process.env.X: undefined and '' are falsy
Truthy(v) == v.set /\ v.text # <<>>

\* a || b of two texts of the environment
OrElse(v, t) == IF Truthy(v) THEN v.text ELSE t

\* parseInt(t, 10): leading white space is skipped, then an optional sign
\* and the longest prefix of decimal digits are converted; NaN if there is
\* no digit
parseInt(t) ==
  LET s == trimStart(t)
      signed == s # <<>> /\ Head(s) \in {"+", "-"}
      sign == IF s # <<>> /\ Head(s) = "-" THEN 0 - 1 ELSE 1
      r == IF signed THEN Tail(s) ELSE s
  IN IF r = <<>> \/ ~IsDigit(Head(r)) THEN NaN
     ELSE Num(sign * DecimalPrefix(r, 0))

\* the environments of the model: BOT_TOKEN, RENDER_EXTERNAL_URL and PORT
\* unset, empty or set
Tokens == {EnvUnset, EnvText(<<>>), EnvText(<<"t", "k">>)}

ExternalUrls == {EnvUnset, EnvText(<<>>), EnvText(<<"u", "r", "l">>)}

Ports ==
  {EnvUnset, EnvText(<<>>), EnvText(<<"8", "0">>), EnvText(<<"8", "0", "a">>),
   EnvText(<<"a">>)}

DefaultPort == <<"1", "0", "0", "0", "0">>

\* `${RENDER_EXTERNAL_URL}/bot${process.env.BOT_TOKEN}`
webhookUrl(url, token) == url.text \o <<"/", "b", "o", "t">> \o token.text

NoServer == [state |-> "none", port |-> Undefined]

\* no process of src/src/index.ts is followed
NoProcess ==
  [pc |-> "none", BOT_TOKEN |-> EnvUnset, RENDER_EXTERNAL_URL |-> EnvUnset,
   PORT |-> EnvUnset, isWebhook |-> "pending", webhook |-> <<>>,
   server |-> NoServer, polling |-> "off", menu |-> "unset"]

\* no bot is running
BotIdle ==
  /\ startup = NoProcess
  /\ program = "none"
  /\ sessions = [u \in Users |-> 0]
  /\ heap = [id \in SessionIds |-> FreeSession]
  /\ handlers = [h \in HandlerSlots |-> IdleHandler]
  /\ sent = <<>>
  /\ updates = 0

Init ==
  /\ BotIdle
  /\ surfaces = <<>>
  /\ \E t \in Tickers, ii \in InitialInvestments, fa \in FinalAmounts,
        pr \in Prices, ch \in Chains :
       calls = [i \in Calls |-> NewCall(t, ii, fa, pr, ch)]
  /\ files \in {f \in [AssetNames -> FileStatus] :
                  \A ch \in Chains :
                    (\A i \in Calls : calls[i].chain # ch)
                      => f[LogoPath(ch)] = "ok"}

\* CreateCanvas with the canvas hoisted to module scope: one canvas, made by
\* the first call, is drawn on by every call
CreateCanvasShared(i) ==
  /\ calls[i].pc = "start"
  /\ surfaces' = IF surfaces = <<>>
                 THEN <<NewSurface(canvasWidth, canvasHeight)>>
                 ELSE surfaces
  /\ calls' = [calls EXCEPT ![i] =
                 Goto(Metrics([calls[i] EXCEPT !.canvas = 1]), "bg")]
  /\ UNCHANGED <<files, botVars>>

CreateCanvas(i) ==
  /\ calls[i].pc = "start"
  /\ surfaces' = Append(surfaces, NewSurface(canvasWidth, canvasHeight))
  /\ calls' = [calls EXCEPT ![i] =
                 Goto(Metrics([calls[i] EXCEPT !.canvas = Len(surfaces) + 1]),
                      "bg")]
  /\ UNCHANGED <<files, botVars>>

BgCheck(i) ==
  /\ calls[i].pc = "bg"
  /\ Check(i, "bg.png", "bgLoad", BgElseCmds, "labelBox")

\* an awaited loadImage rejects: control passes to the enclosing catch
LoadFailed(i) ==
  LET c == calls[i] IN
  /\ c.pc \in LoadSites
  /\ "failed" \in LoadOutcomes(AssetAt(c))
  /\ Move(i, Goto(Ev(c, "failed", AssetAt(c), FALSE), CatchOf(c.pc)))

BgLoaded(i) ==
  LET c == calls[i] IN
  /\ c.pc = "bgLoad"
  /\ "loaded" \in LoadOutcomes("bg.png")
  /\ Step(i, Goto(Ev(c, "loaded", "bg.png", TRUE), "labelBox"),
          Exec(surfaces[c.canvas], BgDrawCmds))

BgCatch(i) ==
  /\ calls[i].pc = "bgCatch"
  /\ Block(i, BgCatchCmds, "labelBox")

LabelBox(i) ==
  /\ calls[i].pc = "labelBox"
  /\ Block(i, LabelBoxCmds, "ticker")

Ticker(i) ==
  /\ calls[i].pc = "ticker"
  /\ Block(i, TickerCmds(calls[i]), "header")

Header(i) ==
  /\ calls[i].pc = "header"
  /\ Block(i, HeaderCmds, "profitAmount")

ProfitAmount(i) ==
  /\ calls[i].pc = "profitAmount"
  /\ Block(i, ProfitAmountCmds(calls[i]), "profitQuantity")

ProfitQuantity(i) ==
  LET c == calls[i]
      textHeight == (P(74) * 75) \div 100
  IN /\ c.pc = "profitQuantity"
     /\ \E s1 \in {Exec(surfaces[c.canvas], ProfitQuantityCmds(c))} :
          \E percentageTextWidth \in {MeasureText(s1, percentageText(c))} :
            Step(i, [c EXCEPT !.pc = "logo6",
                              !.textHeight = textHeight,
                              !.tokenLogoX =
                                 P(119) + percentageTextWidth + P(20),
                              !.tokenLogoY = P(577) - (textHeight \div 2)],
                 s1)

Logo6Check(i) ==
  /\ calls[i].pc = "logo6"
  /\ Check(i, LogoPath(calls[i].chain), "logo6Load", <<>>, "panel")

Logo6Loaded(i) ==
  LET c == calls[i] IN
  /\ c.pc = "logo6Load"
  /\ "loaded" \in LoadOutcomes(LogoPath(c.chain))
  /\ Step(i, Goto(Ev(c, "loaded", LogoPath(c.chain), TRUE), "panel"),
          Exec(surfaces[c.canvas],
               <<LogoDraw(c, c.tokenLogoX, c.tokenLogoY, c.textHeight)>>))

\* catch of the profit-quantity logo: console.error only
Logo6Catch(i) ==
  /\ calls[i].pc = "logo6Catch"
  /\ Move(i, Goto(calls[i], "panel"))

Panel(i) ==
  /\ calls[i].pc = "panel"
  /\ Block(i, PanelCmds, "labels")

\* (s1 and soldTextWidth are bound as values: each ranges over a
\* one-element set)
Labels(i) ==
  LET c == calls[i] IN
  /\ c.pc = "labels"
  /\ \E s1 \in {Exec(surfaces[c.canvas], LabelsCmds(c))} :
       \E soldTextWidth \in {MeasureText(s1, soldText(c))} :
         Step(i, Goto(c, "logo9"), Exec(s1, RoiSuffixCmds(soldTextWidth)))

Logo9Check(i) ==
  /\ calls[i].pc = "logo9"
  /\ Check(i, LogoPath(calls[i].chain), "logo9Load",
           LogoElseCmds(calls[i]), "usd")

Logo9Loaded(i) ==
  LET c == calls[i]
      s == surfaces[c.canvas]
      investmentTextWidth == MeasureText(s, investmentText(c))
      textHeight == (P(77) * 75) \div 100
      tokenLogoX == P(130) + investmentTextWidth + P(19)
      tokenLogoY == P(835) + ((textHeight * 35) \div 100)
  IN /\ c.pc = "logo9Load"
     /\ "loaded" \in LoadOutcomes(LogoPath(c.chain))
     /\ Step(i, [Ev(c, "loaded", LogoPath(c.chain), TRUE)
                   EXCEPT !.pc = "sep",
                          !.textHeight = textHeight,
                          !.tokenLogoX = tokenLogoX,
                          !.tokenLogoY = tokenLogoY],
             Exec(s, InvestedCmds(c, tokenLogoX, tokenLogoY, textHeight)))

SepCheck(i) ==
  LET c == calls[i] IN
  /\ c.pc = "sep"
  /\ Check(i, "stroke.png", "sepLoad",
           SepElseCmds(c, surfaces[c.canvas]), "usd")

SepLoaded(i) ==
  LET c == calls[i] IN
  /\ c.pc = "sepLoad"
  /\ "loaded" \in LoadOutcomes("stroke.png")
  /\ Step(i, Goto(Ev(c, "loaded", "stroke.png", TRUE), "usd"),
          Exec(surfaces[c.canvas], SepLoadedCmds(c, surfaces[c.canvas])))

SepCatch(i) ==
  LET c == calls[i] IN
  /\ c.pc = "sepCatch"
  /\ Block(i, SepCatchCmds(c, surfaces[c.canvas]), "usd")

PanelCatch(i) ==
  /\ calls[i].pc = "panelCatch"
  /\ Block(i, PanelCatchCmds(calls[i]), "usd")

UsdRow(i) ==
  /\ calls[i].pc = "usd"
  /\ Block(i, UsdRowCmds(calls[i]), "toBuffer")

\* return canvas.toBuffer()
ToBuffer(i) ==
  LET c == calls[i]
      s == surfaces[c.canvas]
  IN /\ c.pc = "toBuffer"
     /\ Move(i, [c EXCEPT !.pc = "done",
                          !.result = [width |-> s.width, height |-> s.height,
                                      surface |-> c.canvas]])

Next ==
  \E i \in DOMAIN calls :
    \/ CreateCanvas(i)
    \/ BgCheck(i)
    \/ LoadFailed(i)
    \/ BgLoaded(i)
    \/ BgCatch(i)
    \/ LabelBox(i)
    \/ Ticker(i)
    \/ Header(i)
    \/ ProfitAmount(i)
    \/ ProfitQuantity(i)
    \/ Logo6Check(i)
    \/ Logo6Loaded(i)
    \/ Logo6Catch(i)
    \/ Panel(i)
    \/ Labels(i)
    \/ Logo9Check(i)
    \/ Logo9Loaded(i)
    \/ SepCheck(i)
    \/ SepLoaded(i)
    \/ SepCatch(i)
    \/ PanelCatch(i)
    \/ UsdRow(i)
    \/ ToBuffer(i)

Spec == Init /\ [][Next]_vars

\* Two calls in flight at once (two users), interleaved at every position;
\* each file is missing or present with loads that may fail.
InitPair ==
  /\ BotIdle
  /\ surfaces = <<>>
  /\ \E ch1 \in Chains, ch2 \in Chains :
       calls = [i \in {1, 2} |->
                  NewCall("BONK", 1000, 2500, 150,
                          IF i = 1 THEN ch1 ELSE ch2)]
  /\ files \in [AssetNames -> {"absent", "flaky"}]

SpecPair == InitPair /\ [][Next]_vars

----------------------------------------------------------------------------
(* The front ends.  An update is handled synchronously up to the first     *)
(* await of its handler; a handler that awaits takes a slot and is resumed *)
(* by one action per settled promise.  A promise of the Telegram API or of *)
(* the renderer may be rejected.                                           *)

Repeat(ch, n) == [k \in 1..n |-> ch]

\* Array.prototype.join, used to write the texts of the commands
RECURSIVE join(_, _)
join(parts, sep) ==
  IF parts = <<>> THEN <<>>
  ELSE IF Len(parts) = 1 THEN parts[1]
       ELSE parts[1] \o sep \o join(Tail(parts), sep)

GenCardText == <<"/", "g", "e", "n", "_", "c", "a", "r", "d">>

\* texts of the one-shot command: well-formed for either chain (once with
\* doubled blanks), a field short, and one field out of range at a time
CommandTexts ==
  LET base == <<GenCardText, <<"b", "o", "n", "k">>, <<"1", "0", "0", "0">>,
                <<"2", "5", "0", "0">>, SOL>>
  IN {join(base, <<" ">>),
      join([base EXCEPT ![5] = <<"e", "t", "h">>], <<" ", " ">>),
      join(SubSeq(base, 1, 4), <<" ">>),
      join([base EXCEPT ![2] = Repeat("A", 11)], <<" ">>),
      join([base EXCEPT ![2] = Repeat("U+00DF", 10)], <<" ">>),
      join([base EXCEPT ![3] = <<"-", "5">>], <<" ">>),
      join([base EXCEPT ![3] = InfinityText], <<" ">>),
      join([base EXCEPT ![4] = <<"a", "b", "c">>], <<" ">>),
      join([base EXCEPT ![5] = <<"B", "T", "C">>], <<" ">>)}

\* the answers to the prompts of the session flow: a ticker that is also a
\* chain, a ticker that grows under toUpperCase, and amounts with a unit
SessionTexts ==
  {<<"e", "t", "h">>,
   Repeat("U+00DF", 10),
   <<"1", "0", "0", "0", " ", "d", "o", "l", "l", "a", "r", "s">>,
   <<"0", " ", "d", "o", "l", "l", "a", "r", "s", " ", "l", "e", "f", "t">>,
   InfinityText \o <<" ", "U", "S", "D">>}

ResetCommands == {"start", "gen_card", "cancel"}

\* the lowest slot that holds no suspended handler
IsFreeSlot(h) ==
  /\ handlers[h].pc = "idle"
  /\ \A g \in HandlerSlots : g < h => handlers[g].pc # "idle"

\* session objects that are reachable from the Map m or from a handler of hs
Held(m, hs) ==
  {m[u] : u \in Users} \cup {hs[h].session : h \in HandlerSlots}

\* garbage collection: an object no one holds is gone
Collect(hp, m, hs) ==
  [id \in SessionIds |-> IF id \in Held(m, hs) THEN hp[id] ELSE FreeSession]

\* the id of the object a new { step: 'ticker' } gets, when the Map is m once
\* user u has let go of its entry
NewId(u, m, hs) ==
  CHOOSE id \in SessionIds :
    /\ id \notin Held([m EXCEPT ![u] = 0], hs)
    /\ \A j \in SessionIds :
         j < id => j \in Held([m EXCEPT ![u] = 0], hs)

\* the session middleware: the Map after sessions.has / sessions.set
Middleware(u) ==
  IF sessions[u] # 0 THEN sessions
  ELSE [sessions EXCEPT ![u] = NewId(u, sessions, handlers)]

\* MiddlewareHeap of a middleware that calls sessions.set on every update:
\* the session of the user starts over each time
MiddlewareHeapFresh(u) ==
  IF sessions[u] # 0 THEN [heap EXCEPT ![sessions[u]] = FreshSession]
  ELSE [heap EXCEPT ![NewId(u, sessions, handlers)] = FreshSession]

\* the heap after the middleware
MiddlewareHeap(u) ==
  IF sessions[u] # 0 THEN heap
  ELSE [heap EXCEPT ![NewId(u, sessions, handlers)] = FreshSession]

InitBot ==
  /\ startup = NoProcess
  /\ program \in {"oneShot", "session"}
  /\ sessions = [u \in Users |-> 0]
  /\ heap = [id \in SessionIds |-> FreeSession]
  /\ handlers = [h \in HandlerSlots |-> IdleHandler]
  /\ sent = <<>>
  /\ updates = 0
  /\ files = [a \in AssetNames |-> "ok"]
  /\ surfaces = <<>>
  /\ calls = <<>>

\* one more update is taken from the queue
Received ==
  /\ updates < MaxUpdates
  /\ updates' = updates + 1

\* a handler that ends without awaiting: it replied
Reply(what) ==
  /\ sent' = <<what>>
  /\ UNCHANGED <<program, sessions, heap, handlers, renderVars, startup>>

\* the handler awaits the reply that it is fetching the price
Suspend(h, locals) ==
  /\ IsFreeSlot(h)
  /\ handlers' = [handlers EXCEPT ![h] = locals]
  /\ sent' = <<"fetching">>

\* bot.command('gen_card') of src/src/index.ts, up to its first await
GenCardCommand(text) ==
  /\ program = "oneShot"
  /\ Received
  /\ \E parts \in {SelectSeq(split(trim(text), " "), NotBlank)} :
       IF Len(parts) < 5 THEN Reply("usage")
       ELSE
         \E ticker \in {parts[2]}, initialInvestment \in {parseFloat(parts[3])},
            finalAmount \in {parseFloat(parts[4])},
            chain \in {toUpperCase(trim(parts[5]))} :
           IF ticker = <<>> \/ Len(ticker) > 10 THEN Reply("badTicker")
           ELSE IF isNaN(initialInvestment) \/ Leq(initialInvestment, 0)
           THEN Reply("badInitialInvestment")
           ELSE IF isNaN(finalAmount) \/ Lt(finalAmount, 0)
           THEN Reply("badFinalAmount")
           ELSE IF chain # SOL /\ chain # ETH THEN Reply("badChain")
           ELSE
             /\ \E h \in HandlerSlots :
                  Suspend(h, [IdleHandler EXCEPT
                                !.pc = "fetching",
                                !.ticker = ticker,
                                !.initialInvestment = initialInvestment,
                                !.finalAmount = finalAmount,
                                !.chain = chain])
             /\ UNCHANGED <<program, sessions, heap, renderVars, startup>>

\* bot.start and bot.help of src/src/index.ts, bot.help of the session flow:
\* a reply; in the session flow the middleware has run before
UsageCommand(u) ==
  /\ program # "none"
  /\ Received
  /\ sent' = <<"help">>
  /\ IF program = "session"
     THEN /\ sessions' = Middleware(u)
          /\ heap' = MiddlewareHeap(u)
     ELSE UNCHANGED <<sessions, heap>>
  /\ UNCHANGED <<program, handlers, renderVars, startup>>

\* ResetCommand that puts the step of the session at hand back to 'ticker'
\* instead of storing a new object
ResetCommandInPlace(u, cmd) ==
  /\ program = "session"
  /\ Received
  /\ sessions' = Middleware(u)
  /\ heap' = [MiddlewareHeap(u) EXCEPT ![Middleware(u)[u]].step = "ticker"]
  /\ sent' = <<cmd>>
  /\ UNCHANGED <<program, handlers, renderVars, startup>>

\* bot.start, bot.command('gen_card') and bot.command('cancel') of the
\* session flow: sessions.set(userId, { step: 'ticker' }) and a reply
ResetCommand(u, cmd) ==
  /\ program = "session"
  /\ Received
  /\ \E id \in {NewId(u, sessions, handlers)} :
       /\ sessions' = [sessions EXCEPT ![u] = id]
       /\ heap' = Collect([heap EXCEPT ![id] = FreshSession],
                          [sessions EXCEPT ![u] = id], handlers)
  /\ sent' = <<cmd>>
  /\ UNCHANGED <<program, handlers, renderVars, startup>>

\* a variant of the chain step that stores the chain and leaves the step
ChainAcceptedStay(hp, id, chain) ==
  [hp EXCEPT ![id].chain = chain]

\* the chain step accepts the chain: session.chain = chain and
\* session.step = 'complete', both before the first await
ChainAccepted(hp, id, chain) ==
  [hp EXCEPT ![id].chain = chain, ![id].step = "complete"]

\* bot.on(message('text')) of the session flow, up to its first await
TextMessage(u, text) ==
  /\ program = "session"
  /\ Received
  /\ \E m \in {Middleware(u)}, hp \in {MiddlewareHeap(u)} :
     \E id \in {m[u]} :
     \E session \in {hp[id]} :
       /\ sessions' = m
       /\ UNCHANGED <<program, renderVars, startup>>
       /\ CASE session.step = "ticker" ->
                 \E ticker \in {toUpperCase(trim(text))} :
                   /\ UNCHANGED handlers
                   /\ IF ticker = <<>> \/ Len(ticker) > 10
                      THEN heap' = hp /\ sent' = <<"badTicker">>
                      ELSE /\ heap' = [hp EXCEPT
                                         ![id].ticker = ticker,
                                         ![id].step = "initialInvestment"]
                           /\ sent' = <<"askInitialInvestment">>
            [] session.step = "initialInvestment" ->
                 \E initialInvestment \in {parseFloat(text)} :
                   /\ UNCHANGED handlers
                   /\ IF isNaN(initialInvestment) \/ Leq(initialInvestment, 0)
                      THEN heap' = hp /\ sent' = <<"badInitialInvestment">>
                      ELSE /\ heap' = [hp EXCEPT
                                         ![id].initialInvestment =
                                           initialInvestment,
                                         ![id].step = "finalAmount"]
                           /\ sent' = <<"askFinalAmount">>
            [] session.step = "finalAmount" ->
                 \E finalAmount \in {parseFloat(text)} :
                   /\ UNCHANGED handlers
                   /\ IF isNaN(finalAmount) \/ Lt(finalAmount, 0)
                      THEN heap' = hp /\ sent' = <<"badFinalAmount">>
                      ELSE /\ heap' = [hp EXCEPT
                                         ![id].finalAmount = finalAmount,
                                         ![id].step = "chainChoice"]
                           /\ sent' = <<"askChain">>
            [] session.step = "chainChoice" ->
                 \E chain \in {toUpperCase(trim(text))} :
                   IF chain # SOL /\ chain # ETH
                   THEN /\ heap' = hp
                        /\ sent' = <<"badChain">>
                        /\ UNCHANGED handlers
                   ELSE /\ heap' = ChainAccepted(hp, id, chain)
                        /\ \E h \in HandlerSlots :
                             Suspend(h, [IdleHandler EXCEPT
                                           !.pc = "fetching",
                                           !.session = id, !.chain = chain])
            [] OTHER ->
                 /\ heap' = hp
                 /\ sent' = <<"hint">>
                 /\ UNCHANGED handlers

\* handler h ends: its slot is free and what only it held is collected
Finish(h, hp, what) ==
  /\ handlers' = [handlers EXCEPT ![h] = IdleHandler]
  /\ heap' = Collect(hp, sessions, [handlers EXCEPT ![h] = IdleHandler])
  /\ sent' = what
  /\ UNCHANGED <<program, sessions, updates, renderVars, startup>>

\* handler h goes on to await the next promise
Resume(h, locals, what) ==
  /\ handlers' = [handlers EXCEPT ![h] = locals]
  /\ sent' = what
  /\ UNCHANGED <<program, sessions, heap, updates, renderVars, startup>>

\* the catch block of the generation: an apology; the session flow puts the
\* session it holds back to step 'ticker'
Catch(h) ==
  Finish(h,
         IF program = "session"
         THEN [heap EXCEPT ![handlers[h].session].step = "ticker"]
         ELSE heap,
         <<"sorry">>)

\* await ctx.reply('Fetching ...') has settled; it stands before the try, so
\* its rejection ends the handler.  Then the price request is made.
Fetched(h) ==
  /\ handlers[h].pc = "fetching"
  /\ \E ok \in BOOLEAN :
       IF ok THEN Resume(h, [handlers[h] EXCEPT !.pc = "lookup"], <<>>)
       ELSE Finish(h, heap, <<>>)

\* the arguments handler h passes to generateTradingCard
CallOf(h, price, response) ==
  LET l == handlers[h]
      session == heap[l.session]
  IN IF program = "session"
     THEN [made |-> TRUE, ticker |-> session.ticker,
           initialInvestment |-> session.initialInvestment,
           finalAmount |-> session.finalAmount, price |-> price,
           chain |-> session.chain,
           tokenPrice |-> DefaultTokenPrice(price), response |-> response]
     ELSE [made |-> TRUE, ticker |-> toUpperCase(l.ticker),
           initialInvestment |-> l.initialInvestment,
           finalAmount |-> l.finalAmount, price |-> price,
           chain |-> l.chain,
           tokenPrice |-> DefaultTokenPrice(price), response |-> response]

\* the chain of which the price is asked: the local chain in the one-shot
\* command, session.chain in the session flow
ChainOf(h) ==
  IF program = "session" THEN heap[handlers[h].session].chain
  ELSE handlers[h].chain

\* the session flow keeps the price in the session: session.solPrice or
\* session.ethPrice
PriceStored(h, price) ==
  IF program # "session" THEN heap
  ELSE IF ChainOf(h) = SOL
       THEN [heap EXCEPT ![handlers[h].session].solPrice = price]
       ELSE [heap EXCEPT ![handlers[h].session].ethPrice = price]

\* the price request has settled and getSolanaPrice / getEthereumPrice has
\* returned; generateTradingCard is called with the price
PriceReturned(h) ==
  /\ handlers[h].pc = "lookup"
  /\ \E response \in Responses :
     \E price \in {IF ChainOf(h) = SOL THEN getSolanaPrice(response)
                   ELSE getEthereumPrice(response)} :
       /\ handlers' = [handlers EXCEPT ![h] =
                         [handlers[h] EXCEPT
                            !.pc = "render", !.price = price,
                            !.call = CallOf(h, price, response)]]
       /\ heap' = PriceStored(h, price)
       /\ sent' = <<>>
       /\ UNCHANGED <<program, sessions, updates, renderVars, startup>>

\* generateTradingCard has settled; the buffer goes to replyWithPhoto
RenderSettled(h) ==
  /\ handlers[h].pc = "render"
  /\ \E ok \in BOOLEAN :
       IF ok
       THEN Resume(h, [handlers[h] EXCEPT !.pc = "photo", !.call = NoCall],
                   <<"photo">>)
       ELSE Catch(h)

\* replyWithPhoto has settled; price.toFixed(2) of an undefined price is a
\* TypeError
PhotoSent(h) ==
  /\ handlers[h].pc = "photo"
  /\ \E ok \in BOOLEAN :
       IF ok /\ handlers[h].price.kind # "undefined"
       THEN Resume(h, [handlers[h] EXCEPT !.pc = "info"], <<"priceInfo">>)
       ELSE Catch(h)

\* the reply with the price information has settled; the session flow puts
\* the session back to step 'ticker' and replies once more
InfoSent(h) ==
  /\ handlers[h].pc = "info"
  /\ \E ok \in BOOLEAN :
       IF ~ok THEN Catch(h)
       ELSE IF program = "session"
       THEN Finish(h, [heap EXCEPT ![handlers[h].session].step = "ticker"],
                   <<"success">>)
       ELSE Finish(h, heap, <<>>)

NextBot ==
  \/ \E text \in CommandTexts : GenCardCommand(text)
  \/ \E u \in Users :
       \/ UsageCommand(u)
       \/ \E cmd \in ResetCommands : ResetCommand(u, cmd)
       \/ \E text \in SessionTexts : TextMessage(u, text)
  \/ \E h \in HandlerSlots :
       \/ Fetched(h)
       \/ PriceReturned(h)
       \/ RenderSettled(h)
       \/ PhotoSent(h)
       \/ InfoSent(h)

SpecBot == InitBot /\ [][NextBot]_vars

\* the session flow alone
InitSession ==
  /\ InitBot
  /\ program = "session"

NextSession ==
  \/ \E u \in Users :
       \/ UsageCommand(u)
       \/ \E cmd \in ResetCommands : ResetCommand(u, cmd)
       \/ \E text \in SessionTexts : TextMessage(u, text)
  \/ \E h \in HandlerSlots :
       \/ Fetched(h)
       \/ PriceReturned(h)
       \/ RenderSettled(h)
       \/ PhotoSent(h)
       \/ InfoSent(h)

SpecSession == InitSession /\ [][NextSession]_vars

\* a handler whose awaited promise has settled is resumed
Resumed ==
  \E h \in HandlerSlots :
    \/ Fetched(h)
    \/ PriceReturned(h)
    \/ RenderSettled(h)
    \/ PhotoSent(h)
    \/ InfoSent(h)

\* every awaited promise settles (requests to Telegram and to the price
\* API end with an answer or an error) and the event loop then resumes the
\* handler; updates need not arrive
FairSession == SpecSession /\ WF_vars(Resumed)

\* the process of src/src/index.ts starts in some environment
InitStart ==
  /\ \E token \in Tokens, url \in ExternalUrls, port \in Ports :
       startup = [NoProcess EXCEPT !.pc = "load", !.BOT_TOKEN = token,
                                   !.RENDER_EXTERNAL_URL = url,
                                   !.PORT = port]
  /\ program = "oneShot"
  /\ sessions = [u \in Users |-> 0]
  /\ heap = [id \in SessionIds |-> FreeSession]
  /\ handlers = [h \in HandlerSlots |-> IdleHandler]
  /\ sent = <<>>
  /\ updates = 0
  /\ files = [a \in AssetNames |-> "ok"]
  /\ surfaces = <<>>
  /\ calls = <<>>

\* a step of the start: only startup changes
Started(next) ==
  /\ startup' = next
  /\ UNCHANGED <<program, sessions, heap, handlers, sent, updates,
                 renderVars>>

\* the module body: without BOT_TOKEN the process exits with code 1;
\* otherwise the bot is made, the handlers are registered and startBot is
\* called
LoadModule ==
  /\ startup.pc = "load"
  /\ Started([startup EXCEPT
                !.pc = IF Truthy(startup.BOT_TOKEN) THEN "startBot"
                       ELSE "exited"])

\* startBot calls setupWebhook, which runs to its first await: with
\* RENDER_EXTERNAL_URL it asks Telegram to set the webhook, without it
\* returns false
startBot ==
  /\ startup.pc = "startBot"
  /\ Started(IF Truthy(startup.RENDER_EXTERNAL_URL)
             THEN [startup EXCEPT !.pc = "setWebhook"]
             ELSE [startup EXCEPT !.pc = "returned", !.isWebhook = "false"])

\* await bot.telegram.setWebhook has settled.  Rejected, setupWebhook and
\* startBot are rejected.  Fulfilled, the webhook is registered and
\* app.listen(PORT, '0.0.0.0') is called, which throws on a port that is
\* NaN; then true is returned.
setupWebhook ==
  /\ startup.pc = "setWebhook"
  /\ \E ok \in BOOLEAN :
     \E port \in {parseInt(OrElse(startup.PORT, DefaultPort))} :
     \E url \in {webhookUrl(startup.RENDER_EXTERNAL_URL, startup.BOT_TOKEN)} :
       Started(IF ~ok THEN [startup EXCEPT !.pc = "rejected"]
               ELSE IF isNaN(port)
               THEN [startup EXCEPT !.pc = "rejected", !.webhook = url]
               ELSE [startup EXCEPT
                       !.pc = "returned", !.webhook = url,
                       !.server = [state |-> "binding", port |-> port],
                       !.isWebhook = "true"])

\* a variant of startBot's continuation that launches whatever setupWebhook
\* returned
LaunchAlways ==
  /\ startup.pc = "returned"
  /\ Started([startup EXCEPT !.pc = "launching", !.polling = "starting"])

\* startBot after await setupWebhook(bot): bot.launch() unless the webhook
\* was set up
Launch ==
  /\ startup.pc = "returned"
  /\ Started(IF startup.isWebhook = "false"
             THEN [startup EXCEPT !.pc = "launching", !.polling = "starting"]
             ELSE [startup EXCEPT !.pc = "done"])

\* the server is listening, or the port is taken
Listening ==
  /\ startup.server.state = "binding"
  /\ \E ok \in BOOLEAN :
       Started([startup EXCEPT
                  !.server.state = IF ok THEN "listening" ELSE "failed"])

\* bot.launch() has settled: polling runs and the command menu is sent, or
\* the failure is logged
Launched ==
  /\ startup.pc = "launching"
  /\ \E ok \in BOOLEAN :
       Started(IF ok
               THEN [startup EXCEPT !.pc = "menu", !.polling = "on",
                                    !.menu = "sending"]
               ELSE [startup EXCEPT !.pc = "done", !.polling = "failed"])

\* setMyCommands has settled; its failure is logged
MenuSet ==
  /\ startup.pc = "menu"
  /\ \E ok \in BOOLEAN :
       Started([startup EXCEPT
                  !.pc = "done", !.menu = IF ok THEN "set" ELSE "failed"])

NextStart ==
  \/ LoadModule
  \/ startBot
  \/ setupWebhook
  \/ Launch
  \/ Listening
  \/ Launched
  \/ MenuSet

SpecStart == InitStart /\ [][NextStart]_vars

\* the event loop runs every continuation that is ready, and a loadImage of
\* a local file settles
FairSpec == Spec /\ WF_vars(Next)

----------------------------------------------------------------------------
(* Vocabulary of the properties.                                           *)

\* the draw calls received so far by the surface of call i
OpsOf(i) ==
  IF calls[i].canvas = 0 THEN <<>> ELSE surfaces[calls[i].canvas].ops

\* an event ev was recorded in try block site of call i
Happened(i, ev, site) ==
  \E k \in DOMAIN calls[i].trace :
    calls[i].trace[k].ev = ev /\ calls[i].trace[k].site = site

\* existsSync returned false in try block site of call i
NotFound(i, site) ==
  \E k \in DOMAIN calls[i].trace :
    /\ calls[i].trace[k].ev = "existsSync"
    /\ calls[i].trace[k].site = site
    /\ ~calls[i].trace[k].res

\* the asset of try block site was absent or failed to load
Gone(i, site) == NotFound(i, site) \/ Happened(i, "failed", site)

IsText(o, x, y) == o.op = "fillText" /\ o.x = P(x) /\ o.y = P(y)

IsLogo(o) == o.op = "drawImage" /\ o.arg \in {"sol.png", "eth.png"}

\* the step of the render script (1..11) a draw call belongs to, read off
\* the call itself; 0 if it belongs to none
StepOf(o) ==
  CASE o.op = "drawImage" /\ o.arg = "bg.png" -> 1
    [] o.op = "fillRect" /\ o.x = 0 /\ o.y = 0 -> 1
    [] o.op \in {"strokeRect", "fillRect"} /\ o.x \in {P(1192), P(1194)} -> 2
    [] IsText(o, 1352, 937) -> 2
    [] IsText(o, 112, 63) -> 3
    [] IsText(o, 125, 299) -> 4
    [] IsText(o, 61, 346) -> 5
    [] IsText(o, 119, 577) -> 6
    [] IsLogo(o) /\ o.y < P(700) -> 6
    [] o.op \in {"strokeRect", "fillRect"} /\ o.x \in {P(70), P(73)} -> 7
    [] o.op = "fillText" /\ o.y = P(780) -> 8
    [] IsText(o, 130, 835) -> 9
    [] IsText(o, 272, 835) -> 9
    [] IsLogo(o) /\ o.y > P(700) /\ o.x < P(440) -> 9
    [] o.op = "drawImage" /\ o.arg = "stroke.png" -> 10
    [] IsText(o, 352, 835) -> 10
    [] IsText(o, 440, 835) -> 10
    [] IsText(o, 544, 835) -> 10
    [] IsLogo(o) /\ o.y > P(700) /\ o.x >= P(440) -> 10
    [] o.op = "fillText" /\ o.y = P(927) -> 11
    [] OTHER -> 0

----------------------------------------------------------------------------
(* Properties.                                                             *)

\* C1: whatever the background, chain logo and separator files are (present,
\* absent, failing to load), a call never raises; when it has returned, the
\* two texts of the USD-equivalents row are its last draw calls and a buffer
\* of its surface is the result; and every call eventually returns.
C1_RenderCompletes ==
  /\ [](\A i \in Calls :
          /\ calls[i].pc # "raised"
          /\ calls[i].pc = "done" =>
               LET ops == OpsOf(i) IN
               /\ Len(ops) >= 2
               /\ IsText(ops[Len(ops) - 1], 130, 927)
               /\ IsText(ops[Len(ops)], 440, 927)
               /\ calls[i].result.surface = calls[i].canvas
               /\ calls[i].result.surface # 0)
  /\ \A i \in Calls : <>(calls[i].pc = "done")

\* a call returned although the background failed to load, the logo failed
\* to load in the investment panel and the profit-quantity logo was absent
\* or failing
C1_Witness ==
  \E i \in Calls :
    /\ calls[i].pc = "done"
    /\ Happened(i, "failed", "bg")
    /\ Happened(i, "failed", "logo9")
    /\ Gone(i, "logo6")

\* C2: the surface a call creates is 1600 wide and 1071 high, stays so after
\* every draw step, and the returned buffer has these dimensions.
C2_SurfaceSize ==
  \A i \in Calls :
    /\ calls[i].canvas # 0 =>
         /\ surfaces[calls[i].canvas].width = 1600
         /\ surfaces[calls[i].canvas].height = 1071
    /\ calls[i].pc = "done" =>
         /\ calls[i].result.width = 1600
         /\ calls[i].result.height = 1071

\* a buffer was returned by a render without background, logo and separator
C2_Witness ==
  \E i \in Calls :
    /\ calls[i].pc = "done"
    /\ NotFound(i, "bg")
    /\ NotFound(i, "logo6")
    /\ NotFound(i, "logo9")
    /\ Len(OpsOf(i)) > 20

\* C3: the draw calls of a render come in the order of the eleven steps:
\* every draw call belongs to a step, the step never decreases from one
\* draw call to the next, and a returned render has drawn in every step.
C3_StepOrder ==
  \A i \in Calls :
    LET ops == OpsOf(i) IN
    /\ \A k \in DOMAIN ops : StepOf(ops[k]) \in 1..11
    /\ \A k \in 1..(Len(ops) - 1) : StepOf(ops[k]) <= StepOf(ops[k + 1])
    /\ calls[i].pc = "done" =>
         \A st \in 1..11 : \E k \in DOMAIN ops : StepOf(ops[k]) = st

\* a returned render that went through the separator's catch clause
C3_Witness ==
  \E i \in Calls :
    /\ calls[i].pc = "done"
    /\ Happened(i, "failed", "sep")
    /\ Happened(i, "loaded", "logo6")

\* C4: once computed, the derived values are those of the reference
\* definitions: profit = finalAmount - initialInvestment, initialUsd =
\* initialInvestment * price, finalUsd = finalAmount * price, profitUsd =
\* finalUsd - initialUsd, roi = finalAmount / initialInvestment (as a
\* fraction); (1000, 2500, 150) gives 1500, 225000, 5/2 and
\* (1000, 500, 3500) gives -500, -1750000, 1/2.
C4_Metrics ==
  \A i \in Calls :
    LET c == calls[i] IN
    c.pc # "start" =>
      /\ c.profit = c.finalAmount - c.initialInvestment
      /\ c.initialUsd = c.initialInvestment * c.tokenPrice
      /\ c.finalUsd = c.finalAmount * c.tokenPrice
      /\ c.profitUsd = c.finalAmount * c.tokenPrice
                         - c.initialInvestment * c.tokenPrice
      /\ c.roi.den > 0
      /\ c.roi.num * c.initialInvestment = c.finalAmount * c.roi.den
      /\ (c.initialInvestment = 1000 /\ c.finalAmount = 2500
            /\ c.tokenPrice = 150) =>
           /\ c.profit = 1500
           /\ c.profitUsd = 225000
           /\ 2 * c.roi.num = 5 * c.roi.den
      /\ (c.initialInvestment = 1000 /\ c.finalAmount = 500
            /\ c.tokenPrice = 3500) =>
           /\ c.profit = -500
           /\ c.profitUsd = -1750000
           /\ 2 * c.roi.num = c.roi.den

\* the second example has been computed
C4_Witness ==
  \E i \in Calls :
    /\ calls[i].pc = "bg"
    /\ calls[i].initialInvestment = 1000
    /\ calls[i].finalAmount = 500
    /\ calls[i].tokenPrice = 3500
    /\ calls[i].profitUsd < 0

\* C5: isProfitable is finalAmount - initialInvestment >= 0, the profit
\* amount (61, 346) and the final amount (440, 835) are filled with #00FF00
\* when that holds and with #FF0000 when not, and a returned render has
\* drawn both.
C5_ProfitColor ==
  \A i \in Calls :
    LET c == calls[i]
        ops == OpsOf(i)
        good == c.finalAmount - c.initialInvestment >= 0
    IN /\ c.pc # "start" => (c.isProfitable <=> good)
       /\ \A k \in DOMAIN ops :
            (IsText(ops[k], 61, 346) \/ IsText(ops[k], 440, 835)) =>
              ops[k].style = (IF good THEN "#00FF00" ELSE "#FF0000")
       /\ c.pc = "done" =>
            /\ \E k \in DOMAIN ops : IsText(ops[k], 61, 346)
            /\ \E k \in DOMAIN ops : IsText(ops[k], 440, 835)

\* a losing trade was rendered through the outer catch of the panel
C5_Witness ==
  \E i \in Calls :
    /\ calls[i].pc = "done"
    /\ ~calls[i].isProfitable
    /\ Happened(i, "failed", "logo9")

\* C6: the first draw call of a render is the background bitmap scaled to
\* the whole 1600x1071 surface when bg.png was loaded, and a fill of the
\* whole surface with #000000 when it was absent or its load failed; the
\* second draw call is no background draw.
C6_BackgroundFirst ==
  \A i \in Calls :
    LET ops == OpsOf(i) IN
    /\ calls[i].pc \in {"bg", "bgLoad", "bgCatch"} <=>
         (calls[i].canvas # 0 /\ Len(ops) = 0)
    /\ Len(ops) >= 1 =>
         /\ Happened(i, "loaded", "bg") =>
              ops[1] = [op |-> "drawImage", arg |-> "bg.png", x |-> 0,
                        y |-> 0, w |-> P(1600), h |-> P(1071),
                        style |-> "", font |-> ops[1].font]
         /\ Gone(i, "bg") =>
              ops[1] = [op |-> "fillRect", arg |-> "", x |-> 0, y |-> 0,
                        w |-> P(1600), h |-> P(1071),
                        style |-> "#000000", font |-> ops[1].font]
         /\ Happened(i, "loaded", "bg") \/ Gone(i, "bg")
    /\ Len(ops) >= 2 => StepOf(ops[2]) # 1

\* the background's load failed and the render went on drawing
C6_Witness ==
  \E i \in Calls :
    /\ Happened(i, "failed", "bg")
    /\ Len(OpsOf(i)) >= 2

\* C7: when the chain logo is absent or fails to load in the investment
\* panel, the formatted initialInvestment is still drawn at (130, 835), as
\* it is when the logo is loaded.
C7_InvestedTextDrawn ==
  \A i \in Calls :
    calls[i].pc = "done" =>
      \E k \in DOMAIN OpsOf(i) :
        /\ IsText(OpsOf(i)[k], 130, 835)
        /\ OpsOf(i)[k].arg = investmentText(calls[i])

\* C8: the separator bitmap is drawn in every render in which stroke.png is
\* present and loadable, whatever the chain logo's availability, and the
\* glyph '>' is drawn only when stroke.png itself was absent or failed to
\* load.
C8_SeparatorIndependent ==
  \A i \in Calls :
    LET ops == OpsOf(i) IN
    /\ (calls[i].pc = "done" /\ files["stroke.png"] = "ok") =>
         \E k \in DOMAIN ops :
           ops[k].op = "drawImage" /\ ops[k].arg = "stroke.png"
    /\ (\E k \in DOMAIN ops : IsText(ops[k], 352, 835)) => Gone(i, "sep")

\* C9: when the chain logo is absent or fails to load in the profit-quantity
\* row, a glyph is drawn in its place: the draw call that follows the
\* profit-quantity text is a text draw.
C9_ProfitRowGlyph ==
  \A i \in Calls :
    LET ops == OpsOf(i) IN
    (calls[i].pc = "done" /\ Gone(i, "logo6")) =>
      \E k \in 1..(Len(ops) - 1) :
        /\ IsText(ops[k], 119, 577)
        /\ ops[k + 1].op = "fillText"

\* C10: when the chain logo is absent or fails to load in the investment
\* panel, the placeholder glyph is drawn at (272, 835) and at (544, 835), no
\* logo bitmap is drawn in the panel, and the final amount is drawn at
\* (440, 835).
C10_PanelPlaceholders ==
  \A i \in Calls :
    LET ops == OpsOf(i) IN
    (calls[i].pc = "done" /\ Gone(i, "logo9")) =>
      /\ \E k \in DOMAIN ops :
           IsText(ops[k], 272, 835) /\ ops[k].arg = Placeholder
      /\ \E k \in DOMAIN ops :
           IsText(ops[k], 544, 835) /\ ops[k].arg = Placeholder
      /\ \A k \in DOMAIN ops : ~(IsLogo(ops[k]) /\ ops[k].y > P(700))
      /\ \E k \in DOMAIN ops :
           IsText(ops[k], 440, 835) /\ ops[k].arg = finalAmountText(calls[i])

\* a returned render whose logo file was absent at the investment panel
C10_Witness ==
  \E i \in Calls : calls[i].pc = "done" /\ NotFound(i, "logo9")

\* C11: when the chain logo was loaded in the investment panel and
\* stroke.png is absent or fails to load, '>' is drawn at (352, 835), no
\* separator bitmap is drawn, and the draw calls that follow the glyph are
\* the final amount at (440, 835) and then the second logo.
C11_SeparatorGlyph ==
  \A i \in DOMAIN calls :
    LET ops == OpsOf(i) IN
    (calls[i].pc = "done" /\ Happened(i, "loaded", "logo9")
       /\ Gone(i, "sep")) =>
      /\ \A k \in DOMAIN ops :
           ~(ops[k].op = "drawImage" /\ ops[k].arg = "stroke.png")
      /\ \E k \in 1..(Len(ops) - 2) :
           /\ IsText(ops[k], 352, 835)
           /\ ops[k].arg = ">"
           /\ IsText(ops[k + 1], 440, 835)
           /\ ops[k + 1].arg = finalAmountText(calls[i])
           /\ IsLogo(ops[k + 2])
           /\ ops[k + 2].x >= P(440)

\* a returned render whose logo was loaded and whose separator was absent
C11_Witness ==
  \E i \in DOMAIN calls :
    /\ calls[i].pc = "done"
    /\ Happened(i, "loaded", "logo9")
    /\ NotFound(i, "sep")

\* C12: every draw of a chain logo draws the logo of the call's chain, for
\* ETH 39 wide and 39 * (bitmap height / bitmap width) high, for SOL as a
\* square whose side is 0.75 times the size of the font the slot's text was
\* drawn in (74 in the profit-quantity row, 77 in the panel).
C12_LogoSizing ==
  \A i \in DOMAIN calls :
    \A k \in DOMAIN OpsOf(i) :
      LET o == OpsOf(i)[k]
          d == ImageDims(o.arg)
          side == (P(IF o.y < P(700) THEN 74 ELSE 77) * 75) \div 100
      IN IsLogo(o) =>
           /\ o.arg = (IF calls[i].chain = "ETH" THEN "eth.png" ELSE "sol.png")
           /\ calls[i].chain = "ETH" =>
                (o.w = P(39) /\ o.h * d.w = P(39) * d.h)
           /\ calls[i].chain = "SOL" => (o.w = side /\ o.h = side)

\* an ETH render that drew the logo in all three slots
C12_Witness ==
  \E i \in DOMAIN calls :
    /\ calls[i].pc = "done"
    /\ calls[i].chain = "ETH"
    /\ Cardinality({k \in DOMAIN OpsOf(i) : IsLogo(OpsOf(i)[k])}) = 3

\* C13: within one render no asset is load-attempted more than once.
C13_LoadOnce ==
  \A i \in DOMAIN calls :
    \A a \in AssetNames :
      Cardinality({k \in DOMAIN calls[i].trace :
                     /\ calls[i].trace[k].ev = "loadImage"
                     /\ calls[i].trace[k].asset = a}) <= 1

\* the fallback of try block site is what the surface of call i shows: the
\* black fill (bg), no logo in the profit-quantity row (logo6), the two
\* placeholder glyphs (logo9), the glyph '>' and no separator bitmap (sep)
FallbackShown(i, site) ==
  LET ops == OpsOf(i) IN
  CASE site = "bg" ->
         /\ Len(ops) >= 1
         /\ ops[1].op = "fillRect"
         /\ ops[1].style = "#000000"
    [] site = "logo6" ->
         \A k \in DOMAIN ops : ~(IsLogo(ops[k]) /\ ops[k].y < P(700))
    [] site = "logo9" ->
         /\ \E k \in DOMAIN ops :
              IsText(ops[k], 272, 835) /\ ops[k].arg = Placeholder
         /\ \E k \in DOMAIN ops :
              IsText(ops[k], 544, 835) /\ ops[k].arg = Placeholder
    [] site = "sep" ->
         /\ \E k \in DOMAIN ops : IsText(ops[k], 352, 835) /\ ops[k].arg = ">"
         /\ \A k \in DOMAIN ops :
              ~(ops[k].op = "drawImage" /\ ops[k].arg = "stroke.png")

\* C14: a load is attempted only right after existsSync returned true for
\* the same file in the same try block; a failed load never leaves the call
\* (no raise), and a returned render shows, for a try block whose load
\* failed, the same fallback as for one whose file was not found.
C14_ExistsThenLoad ==
  \A i \in DOMAIN calls :
    LET tr == calls[i].trace IN
    /\ calls[i].pc # "raised"
    /\ \A k \in DOMAIN tr :
         tr[k].ev = "loadImage" =>
           /\ k > 1
           /\ tr[k - 1].ev = "existsSync"
           /\ tr[k - 1].res
           /\ tr[k - 1].asset = tr[k].asset
           /\ tr[k - 1].site = tr[k].site
    /\ calls[i].pc = "done" =>
         \A site \in {"bg", "logo6", "logo9", "sep"} :
           /\ NotFound(i, site) => FallbackShown(i, site)
           /\ Happened(i, "failed", site) => FallbackShown(i, site)

\* a returned render in which the background's load and the separator's
\* load failed
C14_Witness ==
  \E i \in DOMAIN calls :
    /\ calls[i].pc = "done"
    /\ Happened(i, "failed", "bg")
    /\ Happened(i, "failed", "sep")

\* the step of the render script a try block's asset is resolved for
StepOfSite(site) ==
  CASE site = "bg" -> 1
    [] site = "logo6" -> 6
    [] site = "logo9" -> 9
    [] site = "sep" -> 10

\* C15: the asset resolution of a step (existence check, load, settlement)
\* happens before any draw call of that step: when such an event occurs, the
\* surface has received no draw call of the step yet.
C15_ResolveBeforeDraw ==
  \A i \in DOMAIN calls :
    \A k \in DOMAIN calls[i].trace :
      LET e == calls[i].trace[k] IN
      \A j \in 1..e.n : StepOf(OpsOf(i)[j]) # StepOfSite(e.site)

\* what the file system answered to call i, in order: the events of its
\* trace without the draw counts
Outcomes(i) ==
  [k \in DOMAIN calls[i].trace |->
     <<calls[i].trace[k].ev, calls[i].trace[k].asset, calls[i].trace[k].res,
       calls[i].trace[k].site>>]

SameInput(i, j) ==
  /\ calls[i].ticker = calls[j].ticker
  /\ calls[i].initialInvestment = calls[j].initialInvestment
  /\ calls[i].finalAmount = calls[j].finalAmount
  /\ calls[i].tokenPrice = calls[j].tokenPrice
  /\ calls[i].chain = calls[j].chain

\* C16: two calls with the same arguments, to which the file system gave the
\* same answers and which have come to the same position, have issued the
\* same sequence of draw calls with the same arguments; once returned,
\* their buffers are the same.
C16_Deterministic ==
  \A i, j \in DOMAIN calls :
    (/\ calls[i].pc = calls[j].pc
     /\ SameInput(i, j)
     /\ Outcomes(i) = Outcomes(j)) =>
      /\ OpsOf(i) = OpsOf(j)
      /\ calls[i].result.width = calls[j].result.width
      /\ calls[i].result.height = calls[j].result.height

\* two returned calls with the same arguments and the same answers, among
\* them a failed load of the separator
C16_Witness ==
  \E i, j \in DOMAIN calls :
    /\ i # j
    /\ calls[i].pc = "done"
    /\ calls[j].pc = "done"
    /\ SameInput(i, j)
    /\ Outcomes(i) = Outcomes(j)
    /\ Happened(i, "failed", "sep")

\* C17: interleaved calls draw on surfaces of their own: two calls never
\* hold the same surface, and a step of one call leaves the record (locals,
\* result) and the surface (draw calls, fill style, font) of every other
\* call as they were.
C17_OwnSurface ==
  /\ [](\A i, j \in DOMAIN calls :
          (i # j /\ calls[i].canvas # 0) =>
            calls[i].canvas # calls[j].canvas)
  /\ [][\A i \in DOMAIN calls :
          (calls'[i] = calls[i] /\ calls[i].canvas # 0) =>
            surfaces'[calls[i].canvas] = surfaces[calls[i].canvas]]_vars

\* one call is suspended on the load of the separator while the other,
\* started with other arguments, has drawn as far as its panel
C17_Witness ==
  \E i, j \in DOMAIN calls :
    /\ i # j
    /\ calls[i].pc = "sepLoad"
    /\ calls[j].pc = "labels"
    /\ ~SameInput(i, j)

\* a generateTradingCard call of handler h is under way or has returned
Called(h) == handlers[h].call.made

\* C18: in both front ends the renderer is called only with a ticker of 1
\* to 10 characters, an initial investment above 0, a final amount of at
\* least 0 and the chain SOL or ETH, and the price is asked only for input
\* with which it will be called so.
C18_ValidatedCall ==
  \A h \in HandlerSlots :
    (handlers[h].pc = "lookup" \/ Called(h)) =>
      \E c \in {IF Called(h) THEN handlers[h].call
                ELSE CallOf(h, Undefined, [kind |-> "none", usd |-> 0])} :
        /\ Len(c.ticker) \in 1..10
        /\ ~isNaN(c.initialInvestment) /\ ~Leq(c.initialInvestment, 0)
        /\ ~isNaN(c.finalAmount) /\ ~Lt(c.finalAmount, 0)
        /\ c.chain \in {SOL, ETH}

\* C19: the renderer is never called with an initial investment or a final
\* amount that is NaN, +Infinity or -Infinity.
C19_FiniteAmounts ==
  \A h \in HandlerSlots :
    Called(h) =>
      /\ handlers[h].call.initialInvestment.kind = "number"
      /\ handlers[h].call.finalAmount.kind = "number"

\* C20: the price passed to the renderer is the positive quote of the
\* lookup or, when the request failed or the response was malformed, the
\* fallback of the chain (150 for SOL, 3500 for ETH); it is never
\* undefined, and the body of the renderer sees the same price.
C20_PriceOrFallback ==
  \A h \in HandlerSlots :
    Called(h) =>
      \E c \in {handlers[h].call} :
        /\ c.price.kind = "number"
        /\ c.price.val > 0
        /\ c.tokenPrice = c.price
        /\ c.price.val =
             IF c.response.kind = "quote" /\ c.response.usd > 0
             THEN c.response.usd
             ELSE IF c.chain = SOL THEN 150 ELSE 3500

\* C21: on every path on which the chain logo was loaded in the investment
\* panel, the draw call after the final amount at (440, 835) is the second
\* logo, at x = 440 + the measured width of the final-amount text + 19.
C21_SecondLogoOffset ==
  \A i \in DOMAIN calls :
    LET ops == OpsOf(i) IN
    \A k \in 1..(Len(ops) - 1) :
      (/\ Happened(i, "loaded", "logo9")
       /\ IsText(ops[k], 440, 835)
       /\ IsLogo(ops[k + 1])) =>
        ops[k + 1].x = P(440) + MeasureText(ops[k], ops[k].arg) + P(19)

\* C22: when the separator bitmap is drawn (22 wide), its horizontal centre
\* is the midpoint between the right edge of the invested-amount logo as
\* drawn (its x plus its drawn width) and x = 440, for both chains.
C22_SeparatorCentred ==
  \A i \in DOMAIN calls :
    LET ops == OpsOf(i) IN
    \A k \in 2..Len(ops) :
      (/\ ops[k].op = "drawImage"
       /\ ops[k].arg = "stroke.png"
       /\ IsLogo(ops[k - 1])) =>
        /\ ops[k].w = P(22)
        /\ 2 * ops[k].x + ops[k].w = ops[k - 1].x + ops[k - 1].w + P(440)

\* the number of fillText calls at (x, y) on the surface of call i
TextCount(i, x, y) ==
  Cardinality({k \in DOMAIN OpsOf(i) : IsText(OpsOf(i)[k], x, y)})

\* C23: on every asset path the final amount is drawn at (440, 835) at most
\* once while the call runs and exactly once when the panel is finished,
\* and the invested amount at (130, 835) at most once: no fallback repeats
\* a text of the path that failed.
C23_TextsOnce ==
  \A i \in DOMAIN calls :
    /\ TextCount(i, 440, 835) <= 1
    /\ TextCount(i, 130, 835) <= 1
    /\ calls[i].pc \in {"usd", "toBuffer", "done"} =>
         /\ TextCount(i, 440, 835) = 1
         /\ \A k \in DOMAIN OpsOf(i) :
              IsText(OpsOf(i)[k], 440, 835) =>
                OpsOf(i)[k].arg = finalAmountText(calls[i])

\* a returned render whose separator load failed after the invested amount
\* was drawn
C23_Witness ==
  \E i \in DOMAIN calls :
    /\ calls[i].pc = "done"
    /\ Happened(i, "failed", "sep")
    /\ TextCount(i, 130, 835) = 1
    /\ TextCount(i, 440, 835) = 1

\* the replies that ask again for the field of the current step
RePrompts == {"badTicker", "badInitialInvestment", "badFinalAmount", "badChain"}

\* the step taken was the handling of a text message (not of a command)
TextHandled ==
  /\ updates' # updates
  /\ sent' # <<>>
  /\ sent'[1] \notin ResetCommands \cup {"help"}

\* session object a became b by the acceptance of one field
Accepted(a, b) ==
  \/ /\ a.step = "ticker"
     /\ b = [a EXCEPT !.step = "initialInvestment", !.ticker = b.ticker]
  \/ /\ a.step = "initialInvestment"
     /\ b = [a EXCEPT !.step = "finalAmount",
                      !.initialInvestment = b.initialInvestment]
  \/ /\ a.step = "finalAmount"
     /\ b = [a EXCEPT !.step = "chainChoice", !.finalAmount = b.finalAmount]
  \/ /\ a.step = "chainChoice"
     /\ b = [a EXCEPT !.step = "complete", !.chain = b.chain]

\* C24: a session object changes only by being created or collected, by the
\* acceptance of one field on a text message (ticker -> initialInvestment
\* -> finalAmount -> chainChoice -> complete, one object and one step per
\* message; the middleware creates the object of a user who has none), or
\* by its handler storing the price in it or putting it back from complete
\* to ticker; a
\* text message answered with a re-prompt changes no step and no field of
\* any session, suspends no handler and sends that one reply.
C24_StepByStep ==
  [][/\ \A id \in SessionIds :
          \E a \in {heap[id]}, b \in {heap'[id]} :
            \/ b = a
            \/ b = FreeSession
            \/ b = FreshSession /\ a = FreeSession
            \/ b = FreshSession /\ sent' # <<>> /\ sent'[1] \in ResetCommands
            \/ TextHandled /\ Accepted(a, b)
            \/ TextHandled /\ a = FreeSession /\ Accepted(FreshSession, b)
            \/ /\ updates' = updates
               /\ a.step = "complete"
               /\ \/ b = [a EXCEPT !.step = "ticker"]
                  \/ b = [a EXCEPT !.solPrice = b.solPrice,
                                   !.ethPrice = b.ethPrice]
     /\ TextHandled =>
          Cardinality({id \in SessionIds :
                         heap'[id].step # heap[id].step
                           /\ heap[id].step # "free"}) <= 1
     /\ (TextHandled /\ sent'[1] \in RePrompts) =>
          /\ \A id \in SessionIds :
               \/ heap'[id] = heap[id]
               \/ heap[id] = FreeSession /\ heap'[id] = FreshSession
          /\ handlers' = handlers
          /\ Len(sent') = 1]_vars

\* a text that is no amount was answered with the re-prompt of the
\* initial-investment step by a session that holds a ticker
C24_Witness ==
  /\ sent = <<"badInitialInvestment">>
  /\ \E u \in Users :
       /\ sessions[u] # 0
       /\ heap[sessions[u]].step = "initialInvestment"
       /\ heap[sessions[u]].ticker # <<>>

\* C25: a session that is in step complete (its chain was accepted and the
\* generation started) is later in step ticker again, or gone with the
\* handler that held it: no session stays in step complete.
C25_BackToTicker ==
  \A id \in SessionIds :
    (heap[id].step = "complete") ~> (heap[id].step \in {"ticker", "free"})

\* the step taken was the handling of /start, /gen_card or /cancel
ResetHandled ==
  /\ updates' # updates
  /\ sent' # <<>>
  /\ sent'[1] \in ResetCommands

\* C26: /start, /gen_card and /cancel, from whatever step, leave their user
\* with a session in step ticker that holds no ticker, amount, chain or
\* price and
\* is an object no suspended handler holds; the session of every other user
\* is the same object with the same content as before, and no handler is
\* touched.
C26_ResetFresh ==
  [][ResetHandled =>
       \E u \in Users :
         /\ sessions'[u] # 0
         /\ heap'[sessions'[u]] = FreshSession
         /\ \A h \in HandlerSlots : handlers[h].session # sessions'[u]
         /\ \A v \in Users \ {u} :
              /\ sessions'[v] = sessions[v]
              /\ sessions[v] # 0 => heap'[sessions[v]] = heap[sessions[v]]
         /\ handlers' = handlers]_vars

\* a reset command was just handled for a user whose earlier card is still
\* being generated, while another user holds a session with a ticker
C26_Witness ==
  /\ sent # <<>>
  /\ sent[1] \in ResetCommands
  /\ \E u, v \in Users :
       /\ u # v
       /\ sessions[u] # 0
       /\ heap[sessions[u]] = FreshSession
       /\ sessions[v] # 0
       /\ heap[sessions[v]].ticker # <<>>
       /\ \E h \in HandlerSlots :
            /\ handlers[h].pc # "idle"
            /\ handlers[h].session \notin {sessions[u], sessions[v]}

\* a text message was answered with the hint of the default branch
HintSent ==
  /\ updates' # updates
  /\ sent' = <<"hint">>

\* C27: a text message that finds its session in step complete is answered
\* with the hint and starts no handler; a handler starts only on the text
\* that moves its session from chainChoice to complete, no two suspended
\* handlers hold the same session object, and a handler reaches the call of
\* generateTradingCard only from the price lookup, so that one pass through
\* the four prompts makes at most one call.
C27_OneRenderPerPass ==
  [][/\ HintSent => handlers' = handlers
     /\ \A h \in HandlerSlots :
          (handlers[h].pc = "idle" /\ handlers'[h].pc # "idle") =>
            /\ handlers'[h].pc = "fetching"
            /\ heap[handlers'[h].session].step \in {"chainChoice", "free"}
            /\ heap'[handlers'[h].session].step = "complete"
     /\ \A h \in HandlerSlots :
          (handlers'[h].pc = "render" /\ handlers[h].pc # "render") =>
            /\ handlers[h].pc = "lookup"
            /\ handlers'[h].session = handlers[h].session
     /\ \A g, h \in HandlerSlots :
          (g # h /\ handlers'[g].pc # "idle" /\ handlers'[h].pc # "idle") =>
            handlers'[g].session # handlers'[h].session]_vars

\* a text message was answered with the hint while the handler of that
\* user's session, in step complete, waits for generateTradingCard
C27_Witness ==
  /\ sent = <<"hint">>
  /\ \E u \in Users, h \in HandlerSlots :
       /\ sessions[u] # 0
       /\ heap[sessions[u]].step = "complete"
       /\ handlers[h].pc = "render"
       /\ handlers[h].session = sessions[u]
       /\ \A g \in HandlerSlots \ {h} : handlers[g].pc = "idle"

\* C28: a suspended handler holds only an object in step complete, so never
\* the object a reset command created nor that object once it has taken
\* further answers; and the steps of a handler (its awaits settling, its
\* late reset to ticker on success or failure) leave every user's entry in
\* the Map and every session object that is not in step complete as they
\* are.
C28_LateResetOnOldObject ==
  [][/\ \A h \in HandlerSlots :
          handlers'[h].pc # "idle" =>
            heap'[handlers'[h].session].step = "complete"
     /\ updates' = updates =>
          /\ sessions' = sessions
          /\ \A u \in Users :
               (sessions[u] # 0 /\ heap[sessions[u]].step # "complete") =>
                 heap'[sessions[u]] = heap[sessions[u]]]_vars

\* the generation of a card has just ended, with success or in the catch
\* block, for a user who meanwhile started over and gave a new ticker: the
\* new session waits for the initial investment
C28_Witness ==
  /\ sent \in {<<"success">>, <<"sorry">>}
  /\ sessions[1] # 0
  /\ sessions[2] = 0
  /\ heap[sessions[1]].step = "initialInvestment"
  /\ heap[sessions[1]].ticker # <<>>
  /\ \A h \in HandlerSlots : handlers[h].pc = "idle"

\* C29: long polling and the webhook transport never run in one process.
\* Whenever setupWebhook has returned, it returned true if and only if
\* RENDER_EXTERNAL_URL is set to a non-empty text, and then the webhook is
\* registered under the external URL and the HTTP server was started on
\* the port; nothing of the webhook transport exists without that variable;
\* bot.launch is called only after setupWebhook returned false.
C29_OneTransport ==
  /\ ~(startup.polling # "off"
         /\ (startup.webhook # <<>> \/ startup.server # NoServer))
  /\ startup.isWebhook # "pending" =>
       (startup.isWebhook = "true" <=> Truthy(startup.RENDER_EXTERNAL_URL))
  /\ startup.isWebhook = "true" =>
       /\ startup.webhook = webhookUrl(startup.RENDER_EXTERNAL_URL,
                                       startup.BOT_TOKEN)
       /\ startup.server.state # "none"
       /\ startup.server.port =
            parseInt(OrElse(startup.PORT, DefaultPort))
  /\ (startup.webhook # <<>> \/ startup.server # NoServer) =>
       Truthy(startup.RENDER_EXTERNAL_URL)
  /\ startup.polling # "off" => startup.isWebhook = "false"

\* startBot has ended after setupWebhook returned true: the webhook is
\* registered, the server listens and nothing was launched
C29_Witness ==
  /\ startup.pc = "done"
  /\ startup.isWebhook = "true"
  /\ startup.webhook # <<>>
  /\ startup.server.state = "listening"
  /\ startup.polling = "off"

====
